---- MODULE Spec2Model ----
(***************************************************************************)
(* Open-addressing hash tables with double hashing:                        *)
(*   project/task5/hash.py         HashTable   (single owner)              *)
(*   project/task6/MPHashTable.py  MPHashTable (lock-guarded variant)      *)
(*                                                                         *)
(* A table is the record [capacity, table, size]; table is the slot array  *)
(* (1-based here, slot index i of the code is table[i+1]).  Every method   *)
(* is an operator from a table record to a result record, computed the way *)
(* the code computes it, and one action per public method applies it.      *)
(* load_factor is the rational <<num, den>>; the float comparison          *)
(*   (size + 1) / capacity >= load_factor                                  *)
(* is exact on the small integers used here, so it is modelled as          *)
(*   (size + 1) * den >= num * capacity.                                   *)
(***************************************************************************)
EXTENDS Integers, Sequences, FiniteSets, TLC

\* ---- bounds ----
NumKeys == 2
MaxHash == 2
MaxInitCapacity == 3
MaxCapacity == 15
MPMaxCapacity == 5
NumThreads == 2
PerThread == 2
MaxTimes == 2
MaxCalls == 5
NumArgs == 3
MaxProbeCapacity == 12
MaxProbeHash == 6

Values == {1, 2}
Hashes == 0..MaxHash

VARIABLES
    kind,         \* the class: "HashTable" | "MPHashTable"
    status,       \* "args": before __init__; "table": constructed;
                  \* "ValueError": __init__ raised
    capacity,     \* self._capacity
    table,        \* self._table / self._table_typed
    size,         \* self._size
    load_factor,  \* self._load_factor as <<num, den>>
    hash,         \* hash(key) of every key
    initial_capacity,  \* the constructor's argument
    expect,       \* key -> last value set and not deleted since (0: none)
    lock,         \* self._lock, the manager's RLock: owner thread and hold count
    thread,       \* the threads that share the table: program and position
    twin,         \* an MPHashTable given the same arguments and calls as the
                  \* HashTable in capacity, table, size
    times,        \* the argument of cache(): {} for None, {n} for the int n
    cache_storage,  \* the OrderedDict of the wrapper, oldest entry first
    history       \* the calls of the wrapper so far and what each one did

vars == <<kind, status, capacity, table, size, load_factor, hash, initial_capacity, expect, lock, thread, twin, times, cache_storage, history>>

KeySet == DOMAIN hash

\* ---- slots ----
None == [tag |-> "None", key |-> 0, value |-> 0]
DELETED == [tag |-> "DELETED", key |-> 0, value |-> 0]
Item(k, v) == [tag |-> "Item", key |-> k, value |-> v]

IsItem(s) == s.tag = "Item"

EmptyTable(n) == [i \in 1..n |-> None]

Self == [capacity |-> capacity, table |-> table, size |-> size]

NoTable == [capacity |-> 0, table |-> <<>>, size |-> 0]

\* ---- HashTable.__init__ ----
\* as __init__, with the upper end of the load factor range accepted
HashTableInit_closed(cap, lf) ==
    IF cap <= 0
      THEN [exc |-> "ValueError", t |-> NoTable]
    ELSE IF ~(0 < lf[1] /\ lf[1] <= lf[2])
      THEN [exc |-> "ValueError", t |-> NoTable]
    ELSE [exc |-> "",
          t |-> [capacity |-> cap,
                 table |-> EmptyTable(cap),
                 size |-> 0]]

HashTableInit(cap, lf) ==
    IF cap <= 0
      THEN [exc |-> "ValueError", t |-> NoTable]
    ELSE IF ~(0 < lf[1] /\ lf[1] < lf[2])
      THEN [exc |-> "ValueError", t |-> NoTable]
    ELSE [exc |-> "",
          t |-> [capacity |-> cap,
                 table |-> EmptyTable(cap),
                 size |-> 0]]

\* ---- probe sequencer ----
hash1(t, key) == hash[key] % t.capacity

\* as _hash2, without the 1 added to the remainder
hash2_from_zero(t, key) == hash[key] % (t.capacity - 1)

\* callers guard t.capacity = 1, where the code raises ZeroDivisionError
hash2(t, key) == 1 + (hash[key] % (t.capacity - 1))

RECURSIVE ProbeFrom(_, _, _, _)
ProbeFrom(index, step, cap, n) ==
    IF n = 0 THEN <<>>
    ELSE <<index>> \o ProbeFrom((index + step) % cap, step, cap, n - 1)

probe_sequence(t, key, start_index) ==
    ProbeFrom(start_index, hash2(t, key), t.capacity, t.capacity)

\* ---- HashTable._find_index, _resize, __setitem__ ----
RECURSIVE Scan(_, _, _, _, _)
\* the for loop of _find_index over the probe sequence seq, from position i
Scan(t, key, seq, i, first_deleted) ==
    IF i > Len(seq)
      THEN [done |-> FALSE, index |-> first_deleted, found |-> FALSE]
    ELSE LET index == seq[i]
             item == t.table[index + 1]
         IN IF item.tag = "None"
              THEN [done |-> TRUE,
                    index |-> IF first_deleted # -1 THEN first_deleted ELSE index,
                    found |-> FALSE]
            ELSE IF item.tag = "DELETED"
              THEN Scan(t, key, seq, i + 1,
                        IF first_deleted = -1 THEN index ELSE first_deleted)
            ELSE IF item.key = key
              THEN [done |-> TRUE, index |-> index, found |-> TRUE]
            ELSE Scan(t, key, seq, i + 1, first_deleted)

\* as the scan for a None slot, for a scan that takes any slot
NoneSlots_any(t) == 0..(t.capacity - 1)

\* the slots "for i in range(self._capacity): if self._table[i] is None" finds
NoneSlots(t) == {i \in 0..(t.capacity - 1) : t.table[i + 1].tag = "None"}

Min(S) == CHOOSE x \in S : \A y \in S : x <= y

RECURSIVE find_index(_, _)
RECURSIVE resize(_, _)
RECURSIVE Rehash(_, _, _)
RECURSIVE setitem(_, _, _)

find_index(t, key) ==
    IF t.capacity = 1
      THEN [exc |-> "ZeroDivisionError", t |-> t, index |-> -1, found |-> FALSE]
    ELSE LET s == Scan(t, key, probe_sequence(t, key, hash1(t, key)), 1, -1)
         IN IF s.done
              THEN [exc |-> "", t |-> t, index |-> s.index, found |-> s.found]
            ELSE IF s.index # -1
              THEN [exc |-> "", t |-> t, index |-> s.index, found |-> FALSE]
            ELSE IF NoneSlots(t) # {}
              THEN [exc |-> "", t |-> t, index |-> Min(NoneSlots(t)), found |-> FALSE]
            ELSE find_index(resize(t, t.capacity * 2 + 1), key)

\* as _resize_if_needed, with the load measured without the pair to come
resize_if_needed_late(t) ==
    IF t.size * load_factor[2] >= load_factor[1] * t.capacity
      THEN resize(t, t.capacity * 2 + 1)
    ELSE t

resize_if_needed(t) ==
    IF (t.size + 1) * load_factor[2] >= load_factor[1] * t.capacity
      THEN resize(t, t.capacity * 2 + 1)
    ELSE t

\* the loop of _resize over old_table, from position i
Rehash(t, old_table, i) ==
    IF i > Len(old_table) THEN t
    ELSE LET item == old_table[i]
         IN IF IsItem(item)
              THEN Rehash(setitem(t, item.key, item.value), old_table, i + 1)
            ELSE Rehash(t, old_table, i + 1)

resize(t, new_capacity) ==
    Rehash([capacity |-> new_capacity,
            table |-> EmptyTable(new_capacity),
            size |-> 0],
           t.table, 1)

setitem(t, key, value) ==
    LET t1 == resize_if_needed(t)
        r == find_index(t1, key)
        t2 == r.t
    IN IF r.exc # ""
         THEN t2
       ELSE IF r.found
         THEN [t2 EXCEPT !.table[r.index + 1] = Item(key, value)]
       ELSE [t2 EXCEPT !.table[r.index + 1] = Item(key, value),
                       !.size = t2.size + 1]

\* ---- HashTable.__getitem__, __delitem__, __contains__, __len__, clear ----
getitem(t, key) ==
    LET r == find_index(t, key)
    IN IF r.exc # "" THEN [exc |-> r.exc, t |-> r.t, ret |-> 0]
       ELSE IF ~r.found THEN [exc |-> "KeyError", t |-> r.t, ret |-> 0]
       ELSE [exc |-> "", t |-> r.t, ret |-> r.t.table[r.index + 1].value]

\* as __delitem__, without the decrement of _size
delitem_keeps_size(t, key) ==
    LET r == find_index(t, key)
    IN IF r.exc # "" THEN [exc |-> r.exc, t |-> r.t]
       ELSE IF ~r.found THEN [exc |-> "KeyError", t |-> r.t]
       ELSE [exc |-> "", t |-> [r.t EXCEPT !.table[r.index + 1] = DELETED]]

delitem(t, key) ==
    LET r == find_index(t, key)
    IN IF r.exc # "" THEN [exc |-> r.exc, t |-> r.t]
       ELSE IF ~r.found THEN [exc |-> "KeyError", t |-> r.t]
       ELSE [exc |-> "",
             t |-> [r.t EXCEPT !.table[r.index + 1] = DELETED,
                               !.size = r.t.size - 1]]

contains(t, key) ==
    LET r == find_index(t, key)
    IN [exc |-> r.exc, t |-> r.t, ret |-> r.found]

len(t) == t.size

\* as clear, without the reset of _size
clear_keeps_size(t) == [t EXCEPT !.table = EmptyTable(t.capacity)]

clear(t) == [t EXCEPT !.table = EmptyTable(t.capacity), !.size = 0]

\* ---- HashTable.__iter__, keys, values, items ----
RECURSIVE IterFrom(_, _)
\* the for loop of __iter__ over the slot array tbl, from position i
IterFrom(tbl, i) ==
    IF i > Len(tbl) THEN <<>>
    ELSE IF tbl[i].tag # "None" /\ tbl[i].tag # "DELETED"
      THEN <<tbl[i].key>> \o IterFrom(tbl, i + 1)
    ELSE IterFrom(tbl, i + 1)

iter(t) == IterFrom(t.table, 1)

keys(t) == iter(t)

RECURSIVE Lookups(_, _, _, _)
\* [self[key] for key in self]: the generator walks the slot array it
\* started on while every self[key] runs on the table as it is by then
Lookups(t, ks, i, acc) ==
    IF i > Len(ks) THEN [exc |-> "", t |-> t, ret |-> acc]
    ELSE LET r == getitem(t, ks[i])
         IN IF r.exc # "" THEN [exc |-> r.exc, t |-> r.t, ret |-> <<>>]
            ELSE Lookups(r.t, ks, i + 1, Append(acc, <<ks[i], r.ret>>))

items(t) == Lookups(t, iter(t), 1, <<>>)

values(t) ==
    LET r == items(t)
    IN [exc |-> r.exc, t |-> r.t,
        ret |-> [i \in 1..Len(r.ret) |-> r.ret[i][2]]]

\* ---- MPHashTable.__init__ ----
MPHashTableInit(cap, lf) ==
    IF cap <= 0
      THEN [exc |-> "ValueError", t |-> NoTable]
    ELSE IF ~(0 < lf[1] /\ lf[1] < lf[2])
      THEN [exc |-> "ValueError", t |-> NoTable]
    ELSE [exc |-> "",
          t |-> [capacity |-> cap,
                 table |-> EmptyTable(cap),
                 size |-> 0]]

\* ---- MPHashTable._find_index, _resize, __setitem__ ----
\* The slots live in a manager.list proxy: every read of a slot returns an
\* unpickled copy, so "item is self._DELETED" is false for every slot read,
\* also for a slot that holds the marker.  A marker slot is therefore
\* neither None, nor DELETED, nor a tuple to the code.
mp_is_DELETED(item) == FALSE

RECURSIVE MPScan(_, _, _, _, _)
\* the for loop of MPHashTable._find_index, from i (0-based as in the code)
MPScan(t, key, start_index, i, first_deleted) ==
    IF i >= t.capacity
      THEN [index |-> IF first_deleted # -1 THEN first_deleted ELSE 0,
            found |-> FALSE]
    ELSE LET index == (start_index + i * hash2(t, key)) % t.capacity
             item == t.table[index + 1]
         IN IF item.tag = "None"
              THEN [index |-> IF first_deleted # -1 THEN first_deleted ELSE index,
                    found |-> FALSE]
            ELSE IF mp_is_DELETED(item)
              THEN MPScan(t, key, start_index, i + 1,
                          IF first_deleted = -1 THEN index ELSE first_deleted)
            ELSE IF IsItem(item) /\ item.key = key
              THEN [index |-> index, found |-> TRUE]
            ELSE MPScan(t, key, start_index, i + 1, first_deleted)

mp_find_index(t, key) ==
    IF t.capacity = 1
      THEN [exc |-> "ZeroDivisionError", index |-> -1, found |-> FALSE]
    ELSE LET s == MPScan(t, key, hash1(t, key), 0, -1)
         IN [exc |-> "", index |-> s.index, found |-> s.found]

RECURSIVE mp_resize(_, _)
RECURSIVE MPRehash(_, _, _)
RECURSIVE mp_setitem(_, _, _)

mp_resize_if_needed(t) ==
    IF (t.size + 1) * load_factor[2] >= load_factor[1] * t.capacity
      THEN mp_resize(t, t.capacity * 2 + 1)
    ELSE t

\* the loop of MPHashTable._resize over old_table, from position i
MPRehash(t, old_table, i) ==
    IF i > Len(old_table) THEN t
    ELSE LET item == old_table[i]
         IN IF item.tag # "None" /\ ~mp_is_DELETED(item) /\ IsItem(item)
              THEN MPRehash(mp_setitem(t, item.key, item.value), old_table, i + 1)
            ELSE MPRehash(t, old_table, i + 1)

mp_resize(t, new_capacity) ==
    MPRehash([capacity |-> new_capacity,
              table |-> EmptyTable(new_capacity),
              size |-> 0],
             t.table, 1)

mp_setitem(t, key, value) ==
    LET t1 == mp_resize_if_needed(t)
        r == mp_find_index(t1, key)
    IN IF r.found
         THEN [t1 EXCEPT !.table[r.index + 1] = Item(key, value)]
       ELSE IF t1.table[r.index + 1].tag # "None"
               /\ ~mp_is_DELETED(t1.table[r.index + 1])
         THEN LET t2 == mp_resize(t1, t1.capacity * 2 + 1)
                  r2 == mp_find_index(t2, key)
              IN [t2 EXCEPT !.table[r2.index + 1] = Item(key, value),
                            !.size = t2.size + 1]
       ELSE [t1 EXCEPT !.table[r.index + 1] = Item(key, value),
                       !.size = t1.size + 1]

\* ---- MPHashTable.__getitem__, __delitem__, __contains__, __len__, clear ----
mp_getitem(t, key) ==
    LET r == mp_find_index(t, key)
    IN IF r.exc # "" THEN [exc |-> r.exc, t |-> t, ret |-> 0]
       ELSE IF ~r.found THEN [exc |-> "KeyError", t |-> t, ret |-> 0]
       ELSE IF IsItem(t.table[r.index + 1])
         THEN [exc |-> "", t |-> t, ret |-> t.table[r.index + 1].value]
       ELSE [exc |-> "RuntimeError", t |-> t, ret |-> 0]

mp_delitem(t, key) ==
    LET r == mp_find_index(t, key)
    IN IF r.exc # "" THEN [exc |-> r.exc, t |-> t]
       ELSE IF ~r.found THEN [exc |-> "KeyError", t |-> t]
       ELSE [exc |-> "",
             t |-> [t EXCEPT !.table[r.index + 1] = DELETED,
                             !.size = t.size - 1]]

mp_contains(t, key) ==
    LET r == mp_find_index(t, key)
    IN [exc |-> r.exc, t |-> t, ret |-> r.found]

mp_len(t) == t.size

mp_clear(t) == [t EXCEPT !.table = EmptyTable(t.capacity), !.size = 0]

\* ---- observations ----
Occupied(t) == {i \in 1..Len(t.table) : IsItem(t.table[i])}

SlotsOf(t, k) == {i \in Occupied(t) : t.table[i].key = k}

Live == {k \in KeySet : expect[k] # 0}

ProbeSet(t, key) ==
    IF t.capacity = 1 THEN {}
    ELSE LET seq == probe_sequence(t, key, hash1(t, key))
         IN {seq[i] : i \in 1..Len(seq)}

\* ---- construction ----
Sorted(h) == \A j, k \in DOMAIN h : j <= k => h[j] <= h[k]

\* the arguments of the constructor call and the hash of every key
InitWith(classes, caps, lfs, hashes) ==
    /\ kind \in classes
    /\ status = "args"
    /\ initial_capacity \in caps
    /\ load_factor \in lfs
    /\ hash \in hashes
    /\ capacity = NoTable.capacity
    /\ table = NoTable.table
    /\ size = NoTable.size
    /\ expect = [k \in DOMAIN hash |-> 0]
    /\ lock = [owner |-> 0, count |-> 0]
    /\ thread = <<>>
    /\ twin = NoTable
    /\ times = {}
    /\ cache_storage = <<>>
    /\ history = <<>>

InitCapacities == (-1)..MaxInitCapacity
LoadFactors == {<<0, 1>>, <<1, 1>>, <<3, 2>>, <<1, 8>>, <<1, 2>>, <<9, 10>>}

\* every argument pair within the bounds, keys named in order of hash
InitBounded ==
    InitWith({"HashTable", "MPHashTable"}, InitCapacities, LoadFactors,
             {h \in [1..NumKeys -> Hashes] : Sorted(h)})

\* Tables of composite capacity whose keys share one hash value, so that a
\* key's step can fail to be coprime to the capacity (capacity 4, hash 1:
\* step 2; capacity 6, hash 2: step 3) and its probe sequence then covers
\* only part of the slot array.
InitCollide ==
    \/ InitWith({"HashTable"}, {4}, {<<9, 10>>}, {[k \in 1..3 |-> 1]})
    \/ InitWith({"HashTable"}, {6}, {<<3, 5>>, <<7, 10>>}, {[k \in 1..3 |-> 2]})

Init == InitBounded \/ InitCollide

\* ---- actions: one per public method ----
\* A call that raises leaves the table as the method left it and returns
\* nothing; the outcome of a call is the exc / ret field of its operator.
Install(t) ==
    /\ capacity' = t.capacity
    /\ table' = t.table
    /\ size' = t.size

Fixed ==
    /\ UNCHANGED <<kind, status, load_factor, hash, initial_capacity, lock, thread, twin>>
    /\ UNCHANGED <<times, cache_storage, history>>

IsHT == kind = "HashTable" /\ status = "table"

IsMP == kind = "MPHashTable" /\ status = "table"

New ==
    /\ kind = "HashTable"
    /\ status = "args"
    /\ LET r == HashTableInit(initial_capacity, load_factor)
       IN /\ status' = IF r.exc = "" THEN "table" ELSE r.exc
          /\ Install(r.t)
    /\ UNCHANGED <<kind, load_factor, hash, initial_capacity, expect, lock, thread, twin>>
    /\ UNCHANGED <<times, cache_storage, history>>

MPNew ==
    /\ kind = "MPHashTable"
    /\ status = "args"
    /\ LET r == MPHashTableInit(initial_capacity, load_factor)
       IN /\ status' = IF r.exc = "" THEN "table" ELSE r.exc
          /\ Install(r.t)
    /\ UNCHANGED <<kind, load_factor, hash, initial_capacity, expect, lock, thread, twin>>
    /\ UNCHANGED <<times, cache_storage, history>>

SetItem(k, v) ==
    /\ IsHT
    /\ LET t == setitem(Self, k, v)
       IN /\ t.capacity <= MaxCapacity
          /\ Install(t)
    /\ expect' = [expect EXCEPT ![k] = v]
    /\ Fixed

GetItem(k) ==
    /\ IsHT
    /\ LET r == getitem(Self, k)
       IN /\ r.t.capacity <= MaxCapacity
          /\ Install(r.t)
    /\ UNCHANGED expect
    /\ Fixed

DelItem(k) ==
    /\ IsHT
    /\ LET r == delitem(Self, k)
       IN /\ r.t.capacity <= MaxCapacity
          /\ Install(r.t)
          /\ expect' = IF r.exc = "" THEN [expect EXCEPT ![k] = 0] ELSE expect
    /\ Fixed

Contains(k) ==
    /\ IsHT
    /\ LET r == contains(Self, k)
       IN /\ r.t.capacity <= MaxCapacity
          /\ Install(r.t)
    /\ UNCHANGED expect
    /\ Fixed

LenCall ==
    /\ IsHT
    /\ len(Self) = size
    /\ UNCHANGED <<capacity, table, size, expect>>
    /\ Fixed

Clear ==
    /\ IsHT
    /\ Install(clear(Self))
    /\ expect' = [k \in KeySet |-> 0]
    /\ Fixed

Iter ==
    /\ IsHT
    /\ Len(iter(Self)) <= capacity
    /\ UNCHANGED <<capacity, table, size, expect>>
    /\ Fixed

Keys ==
    /\ IsHT
    /\ keys(Self) = iter(Self)
    /\ UNCHANGED <<capacity, table, size, expect>>
    /\ Fixed

ValuesCall ==
    /\ IsHT
    /\ LET r == values(Self)
       IN /\ r.t.capacity <= MaxCapacity
          /\ Install(r.t)
    /\ UNCHANGED expect
    /\ Fixed

Items ==
    /\ IsHT
    /\ LET r == items(Self)
       IN /\ r.t.capacity <= MaxCapacity
          /\ Install(r.t)
    /\ UNCHANGED expect
    /\ Fixed

MPSetItem(k, v) ==
    /\ IsMP
    /\ LET t == mp_setitem(Self, k, v)
       IN /\ t.capacity <= MPMaxCapacity
          /\ Install(t)
    /\ expect' = [expect EXCEPT ![k] = v]
    /\ Fixed

MPGetItem(k) ==
    /\ IsMP
    /\ Install(mp_getitem(Self, k).t)
    /\ UNCHANGED expect
    /\ Fixed

MPDelItem(k) ==
    /\ IsMP
    /\ LET r == mp_delitem(Self, k)
       IN /\ Install(r.t)
          /\ expect' = IF r.exc = "" THEN [expect EXCEPT ![k] = 0] ELSE expect
    /\ Fixed

MPContains(k) ==
    /\ IsMP
    /\ Install(mp_contains(Self, k).t)
    /\ UNCHANGED expect
    /\ Fixed

MPLenCall ==
    /\ IsMP
    /\ mp_len(Self) = size
    /\ UNCHANGED <<capacity, table, size, expect>>
    /\ Fixed

MPClear ==
    /\ IsMP
    /\ Install(mp_clear(Self))
    /\ expect' = [k \in KeySet |-> 0]
    /\ Fixed

Next ==
    \/ New
    \/ MPNew
    \/ \E k \in KeySet, v \in Values : SetItem(k, v)
    \/ \E k \in KeySet : GetItem(k)
    \/ \E k \in KeySet : DelItem(k)
    \/ \E k \in KeySet : Contains(k)
    \/ LenCall
    \/ Clear
    \/ Iter
    \/ Keys
    \/ ValuesCall
    \/ Items
    \/ \E k \in KeySet, v \in Values : MPSetItem(k, v)
    \/ \E k \in KeySet : MPGetItem(k)
    \/ \E k \in KeySet : MPDelItem(k)
    \/ \E k \in KeySet : MPContains(k)
    \/ MPLenCall
    \/ MPClear

Spec == Init /\ [][Next]_vars

\* ---- the probe sequencer called on its own ----
\* One key of any hash value, negative ones included, and a table of any
\* capacity up to MaxProbeCapacity; the calls change nothing.
Hash1Call(key) ==
    /\ (IsHT \/ IsMP)
    /\ hash1(Self, key) \in Int
    /\ UNCHANGED vars

\* raises ZeroDivisionError on a table of capacity 1
Hash2Call(key) ==
    /\ (IsHT \/ IsMP)
    /\ capacity # 1
    /\ hash2(Self, key) \in Int
    /\ UNCHANGED vars

ProbeSequenceCall(key) ==
    /\ IsHT
    /\ capacity # 1
    /\ Len(probe_sequence(Self, key, hash1(Self, key))) = capacity
    /\ UNCHANGED vars

InitProbe ==
    InitWith({"HashTable", "MPHashTable"}, 1..MaxProbeCapacity, {<<1, 2>>},
             [1..1 -> (-MaxProbeHash)..MaxProbeHash])

NextProbe ==
    \/ New
    \/ MPNew
    \/ \E key \in KeySet : Hash1Call(key)
    \/ \E key \in KeySet : Hash2Call(key)
    \/ \E key \in KeySet : ProbeSequenceCall(key)

SpecProbe == InitProbe /\ [][NextProbe]_vars

\* ---- a HashTable whose slots can all be taken ----
\* Capacity 4: the keys of hash 1 probe slots 1 and 3 only, the key of hash
\* 0 starts at slot 0 and the key of hash 2 at slot 2, so that Tombstones
\* can fill the slots off the probe sequence of a key of hash 1.
InitExhaust ==
    InitWith({"HashTable"}, {4}, {<<9, 10>>}, {<<0, 1, 1, 1, 2>>})

NextExhaust ==
    \/ New
    \/ \E k \in KeySet, v \in Values : SetItem(k, v)
    \/ \E k \in KeySet : GetItem(k)
    \/ \E k \in KeySet : DelItem(k)
    \/ \E k \in KeySet : Contains(k)
    \/ Clear

SpecExhaust == InitExhaust /\ [][NextExhaust]_vars

\* ---- a HashTable and an MPHashTable driven by one thread ----
\* The two objects are constructed with the same arguments and then given
\* the same calls: capacity, table and size are the HashTable, twin is the
\* MPHashTable.
PairFixed ==
    /\ UNCHANGED <<kind, status, load_factor, hash, initial_capacity, lock, thread>>
    /\ UNCHANGED <<times, cache_storage, history>>

IsPair == kind = "Pair" /\ status = "table"

PairNew ==
    /\ kind = "Pair"
    /\ status = "args"
    /\ LET r == HashTableInit(initial_capacity, load_factor)
           q == MPHashTableInit(initial_capacity, load_factor)
       IN /\ status' = IF r.exc # "" THEN r.exc
                        ELSE IF q.exc # "" THEN q.exc ELSE "table"
          /\ Install(r.t)
          /\ twin' = q.t
    /\ UNCHANGED <<kind, load_factor, hash, initial_capacity, expect, lock, thread>>
    /\ UNCHANGED <<times, cache_storage, history>>

PairSetItem(k, v) ==
    /\ IsPair
    /\ LET t == setitem(Self, k, v)
           u == mp_setitem(twin, k, v)
       IN /\ t.capacity <= MPMaxCapacity
          /\ u.capacity <= MPMaxCapacity
          /\ Install(t)
          /\ twin' = u
    /\ expect' = [expect EXCEPT ![k] = v]
    /\ PairFixed

PairGetItem(k) ==
    /\ IsPair
    /\ LET r == getitem(Self, k)
       IN /\ r.t.capacity <= MaxCapacity
          /\ Install(r.t)
    /\ twin' = mp_getitem(twin, k).t
    /\ UNCHANGED expect
    /\ PairFixed

PairDelItem(k) ==
    /\ IsPair
    /\ LET r == delitem(Self, k)
       IN /\ r.t.capacity <= MaxCapacity
          /\ Install(r.t)
          /\ expect' = IF r.exc = "" THEN [expect EXCEPT ![k] = 0] ELSE expect
    /\ twin' = mp_delitem(twin, k).t
    /\ PairFixed

PairContains(k) ==
    /\ IsPair
    /\ LET r == contains(Self, k)
       IN /\ r.t.capacity <= MaxCapacity
          /\ Install(r.t)
    /\ twin' = mp_contains(twin, k).t
    /\ UNCHANGED expect
    /\ PairFixed

PairLen ==
    /\ IsPair
    /\ len(Self) = size
    /\ mp_len(twin) = twin.size
    /\ UNCHANGED <<capacity, table, size, expect, twin>>
    /\ PairFixed

PairClear ==
    /\ IsPair
    /\ Install(clear(Self))
    /\ twin' = mp_clear(twin)
    /\ expect' = [k \in KeySet |-> 0]
    /\ PairFixed

\* small tables, of prime and of composite capacity, for a pair of objects
InitPair ==
    \/ InitWith({"Pair"}, 1..MaxInitCapacity, {<<1, 2>>},
                {[k \in 1..2 |-> k], [k \in 1..2 |-> 2]})
    \/ InitWith({"Pair"}, {4}, {<<9, 10>>}, {[k \in 1..3 |-> 1]})

NextPair ==
    \/ PairNew
    \/ \E k \in KeySet, v \in Values : PairSetItem(k, v)
    \/ \E k \in KeySet : PairGetItem(k)
    \/ \E k \in KeySet : PairDelItem(k)
    \/ \E k \in KeySet : PairContains(k)
    \/ PairLen
    \/ PairClear

SpecPair == InitPair /\ [][NextPair]_vars

\* ---- cache(times) ----
\* The argument tuples of the decorated function are the keys 1..NumArgs;
\* cache_storage is the OrderedDict as the sequence of its entries, oldest
\* first; history is what a caller that counts the calls of the function
\* observes: per call of the wrapper its key, its result, whether the
\* function was called, and the key of the entry it evicted (0: none).
func(key) == 2 * key

\* cache(times) itself: None disables caching, a negative int is refused
cache(t) ==
    IF t = {} THEN [exc |-> ""]
    ELSE IF \E n \in t : n < 0 THEN [exc |-> "ValueError"]
    ELSE [exc |-> ""]

\* as live, for an entry that is kept until its count is below zero
live_once_more(count) == count > 0

\* "if count > 1": the entry is kept after this hit
live(count) == count > 1

\* as overfull, for a cache that is allowed one entry more
overfull_by_two(storage, n) == Len(storage) > n + 1

\* "if len(cache_storage) > times"
overfull(storage, n) == Len(storage) > n

\* one call of the wrapper with the argument tuple key
wrapper(t, storage, key) ==
    IF t = {}
      THEN [storage |-> storage, result |-> func(key), computed |-> TRUE, evicted |-> 0]
    ELSE LET n == CHOOSE x \in t : TRUE
             S == {j \in 1..Len(storage) : storage[j].key = key}
             i == IF S = {} THEN 0 ELSE Min(S)
         IN IF i # 0
              THEN [storage |-> IF live(storage[i].count)
                                  THEN [storage EXCEPT ![i].count = @ - 1]
                                ELSE [j \in 1..(Len(storage) - 1) |->
                                        IF j < i THEN storage[j] ELSE storage[j + 1]],
                    result |-> storage[i].result,
                    computed |-> FALSE,
                    evicted |-> 0]
            ELSE LET stored == Append(storage, [key |-> key, result |-> func(key),
                                                count |-> n])
                 IN IF overfull(stored, n)
                      THEN [storage |-> Tail(stored), result |-> func(key),
                            computed |-> TRUE, evicted |-> Head(stored).key]
                    ELSE [storage |-> stored, result |-> func(key),
                          computed |-> TRUE, evicted |-> 0]

IsCache == kind = "cache" /\ status = "wrapper"

\* @cache(times=...) applied to the function
Decorate ==
    /\ kind = "cache"
    /\ status = "args"
    /\ status' = IF cache(times).exc = "" THEN "wrapper" ELSE cache(times).exc
    /\ UNCHANGED <<times, cache_storage, history>>
    /\ UNCHANGED <<kind, capacity, table, size, load_factor, hash,
                   initial_capacity, expect, lock, thread, twin>>

WrapperCall(key) ==
    /\ IsCache
    /\ Len(history) < MaxCalls
    /\ LET r == wrapper(times, cache_storage, key)
       IN /\ cache_storage' = r.storage
          /\ history' = Append(history, [key |-> key, result |-> r.result,
                                         computed |-> r.computed,
                                         evicted |-> r.evicted])
    /\ UNCHANGED <<status, times>>
    /\ UNCHANGED <<kind, capacity, table, size, load_factor, hash,
                   initial_capacity, expect, lock, thread, twin>>

InitCache ==
    /\ kind = "cache"
    /\ status = "args"
    /\ times \in {{}} \cup {{n} : n \in (-1)..MaxTimes}
    /\ cache_storage = <<>>
    /\ history = <<>>
    /\ hash = [k \in 1..NumArgs |-> k]
    /\ initial_capacity = 0
    /\ load_factor = <<1, 2>>
    /\ capacity = NoTable.capacity
    /\ table = NoTable.table
    /\ size = NoTable.size
    /\ expect = [k \in 1..NumArgs |-> 0]
    /\ lock = [owner |-> 0, count |-> 0]
    /\ thread = <<>>
    /\ twin = NoTable

NextCache ==
    \/ Decorate
    \/ \E key \in KeySet : WrapperCall(key)

SpecCache == InitCache /\ [][NextCache]_vars

\* ---- MPHashTable shared by threads ----
\* Every public method runs inside "with self._lock"; _capacity and _size are
\* plain attributes of the one object the threads share, the slots and the
\* lock live in the manager.  A thread is the record of its program (the
\* calls it makes, in order), the index ip of the call it is at, its
\* position pc inside that call and the locals of the call.
Threads == 1..NumThreads

Op(o, k, v) == [op |-> o, key |-> k, value |-> v]

LockedOps == {"set", "set_inc", "get", "del", "contains", "len", "clear", "iter"}
SetOps == {"set", "set_inc"}

\* ---- the lock: manager.RLock() ----
\* as acquirable, for a lock that excludes nobody
acquirable_always(l, t) == TRUE

\* acquire() returns when the lock is free or held by the caller
acquirable(l, t) == l.owner = 0 \/ l.owner = t

\* as rlock_acquire, for a lock that does not count the holds of its owner
lock_acquire(l, t) == [owner |-> t, count |-> 1]

rlock_acquire(l, t) == [owner |-> t, count |-> l.count + 1]

\* as rlock_release, with the owner left in place by the last release
rlock_release_owner_kept(l, t) == [l EXCEPT !.count = IF @ > 0 THEN @ - 1 ELSE 0]

rlock_release(l, t) ==
    IF l.count <= 1 THEN [owner |-> 0, count |-> 0]
    ELSE [l EXCEPT !.count = @ - 1]

\* as with_exit, releasing only when the block returns normally
with_exit_on_return(l, t, exc) == IF exc = "" THEN rlock_release(l, t) ELSE l

\* __exit__ of "with self._lock": runs on return and on raise alike
with_exit(l, t, exc) == rlock_release(l, t)

RECURSIVE Unwind(_, _, _)
\* an exception leaves the n enclosing "with ht._lock" blocks of the caller
Unwind(l, t, n) == IF n = 0 THEN l ELSE Unwind(with_exit(l, t, "raise"), t, n - 1)

holds(t) == IF lock.owner = t THEN lock.count ELSE 0

\* ---- the steps of MPHashTable.__setitem__ and __iter__ ----
mp_needs_resize(t) ==
    (t.size + 1) * load_factor[2] >= load_factor[1] * t.capacity

\* __setitem__ from _find_index on, after _resize_if_needed has returned
mp_store(t1, key, value) ==
    LET r == mp_find_index(t1, key)
    IN IF r.found
         THEN [t1 EXCEPT !.table[r.index + 1] = Item(key, value)]
       ELSE IF t1.table[r.index + 1].tag # "None"
               /\ ~mp_is_DELETED(t1.table[r.index + 1])
         THEN LET t2 == mp_resize(t1, t1.capacity * 2 + 1)
                  r2 == mp_find_index(t2, key)
              IN [t2 EXCEPT !.table[r2.index + 1] = Item(key, value),
                            !.size = t2.size + 1]
       ELSE [t1 EXCEPT !.table[r.index + 1] = Item(key, value),
                       !.size = t1.size + 1]

\* as mp_yields, without the isinstance test: a marker read through the
\* proxy is neither None nor the marker object
mp_yields_marker(item) == item.tag # "None" /\ ~mp_is_DELETED(item)

\* __iter__ yields item[0] for the slots that pass its three tests
mp_yields(item) == item.tag # "None" /\ ~mp_is_DELETED(item) /\ IsItem(item)

\* first position from i on of old_table that _resize re-inserts
NextItem(old_table, i) ==
    LET S == {j \in i..Len(old_table) : IsItem(old_table[j])}
    IN IF S = {} THEN Len(old_table) + 1 ELSE Min(S)

\* ---- threads ----
NewThread(p) ==
    [prog |-> p, ip |-> 1, pc |-> IF Len(p) = 0 THEN "done" ELSE "idle",
     ret |-> 0, exc |-> "", ext |-> 0, snap |-> NoTable,
     old_table |-> <<>>, pos |-> 0, yielded |-> <<>>,
     seen |-> [value |-> 0, partial |-> FALSE]]

Cur(t) == thread[t].prog[thread[t].ip]

\* the value a set writes: set_inc writes the last value got, plus one
Arg(t) == IF Cur(t).op = "set_inc" THEN thread[t].ret + 1 ELSE Cur(t).value

Returned(r) ==
    [r EXCEPT !.ip = @ + 1,
              !.pc = IF r.ip + 1 > Len(r.prog) THEN "done" ELSE "idle",
              !.snap = NoTable, !.old_table = <<>>, !.pos = 0,
              !.yielded = <<>>]

Raised(r) ==
    [r EXCEPT !.pc = "raised", !.ext = 0,
              !.snap = NoTable, !.old_table = <<>>, !.pos = 0,
              !.yielded = <<>>]

At(t, pcs, ops) ==
    /\ IsMP
    /\ t \in DOMAIN thread
    /\ thread[t].pc \in pcs
    /\ Cur(t).op \in ops

FixedArgs ==
    /\ UNCHANGED <<kind, status, load_factor, hash, initial_capacity, expect, twin>>
    /\ UNCHANGED <<times, cache_storage, history>>

TableSame == UNCHANGED <<capacity, table, size>>

\* "with self._lock:" of a public method
Acquire(t) ==
    /\ At(t, {"idle"}, LockedOps)
    /\ acquirable(lock, t)
    /\ lock' = rlock_acquire(lock, t)
    /\ thread' = [thread EXCEPT ![t] =
                    [@ EXCEPT !.pc = IF Cur(t).op = "iter" THEN "iter" ELSE "body",
                              !.snap = Self]]
    /\ TableSame
    /\ FixedArgs

\* _resize up to its loop: new capacity, fresh slots, size 0
ResizeBegin(t) ==
    /\ At(t, {"body"}, SetOps)
    /\ mp_needs_resize(Self)
    /\ capacity' = capacity * 2 + 1
    /\ table' = EmptyTable(capacity * 2 + 1)
    /\ size' = 0
    /\ thread' = [thread EXCEPT ![t] =
                    [@ EXCEPT !.pc = "rehash", !.old_table = table, !.pos = 1]]
    /\ UNCHANGED lock
    /\ FixedArgs

\* one turn of the loop of _resize: self[key] = value for the next tuple of
\* old_table (a whole nested __setitem__, run by the thread that holds the
\* lock)
Reinsert(t) ==
    /\ At(t, {"rehash"}, SetOps)
    /\ LET n == NextItem(thread[t].old_table, thread[t].pos)
       IN /\ n <= Len(thread[t].old_table)
          /\ Install(mp_setitem(Self, thread[t].old_table[n].key,
                                thread[t].old_table[n].value))
          /\ thread' = [thread EXCEPT ![t] = [@ EXCEPT !.pos = n + 1]]
    /\ UNCHANGED lock
    /\ FixedArgs

\* the rest of __setitem__, once _resize_if_needed has returned
Store(t) ==
    /\ \/ At(t, {"body"}, SetOps) /\ ~mp_needs_resize(Self)
       \/ /\ At(t, {"rehash"}, SetOps)
          /\ NextItem(thread[t].old_table, thread[t].pos) > Len(thread[t].old_table)
    /\ Install(mp_store(Self, Cur(t).key, Arg(t)))
    /\ thread' = [thread EXCEPT ![t] =
                    [@ EXCEPT !.pc = "exit", !.old_table = <<>>, !.pos = 0]]
    /\ UNCHANGED lock
    /\ FixedArgs

GetBody(t) ==
    /\ At(t, {"body"}, {"get"})
    /\ LET r == mp_getitem(Self, Cur(t).key)
       IN thread' = [thread EXCEPT ![t] =
                       [@ EXCEPT !.pc = "exit", !.exc = r.exc,
                                 !.ret = IF r.exc = "" THEN r.ret ELSE @]]
    /\ TableSame
    /\ UNCHANGED lock
    /\ FixedArgs

DelBody(t) ==
    /\ At(t, {"body"}, {"del"})
    /\ LET r == mp_delitem(Self, Cur(t).key)
       IN /\ Install(r.t)
          /\ thread' = [thread EXCEPT ![t] =
                          [@ EXCEPT !.pc = "exit", !.exc = r.exc]]
    /\ UNCHANGED lock
    /\ FixedArgs

ContainsBody(t) ==
    /\ At(t, {"body"}, {"contains"})
    /\ LET r == mp_contains(Self, Cur(t).key)
       IN thread' = [thread EXCEPT ![t] =
                       [@ EXCEPT !.pc = "exit", !.exc = r.exc,
                                 !.ret = IF r.ret THEN 1 ELSE 0]]
    /\ TableSame
    /\ UNCHANGED lock
    /\ FixedArgs

LenBody(t) ==
    /\ At(t, {"body"}, {"len"})
    /\ thread' = [thread EXCEPT ![t] =
                    [@ EXCEPT !.pc = "exit", !.ret = mp_len(Self)]]
    /\ TableSame
    /\ UNCHANGED lock
    /\ FixedArgs

ClearBody(t) ==
    /\ At(t, {"body"}, {"clear"})
    /\ Install(mp_clear(Self))
    /\ thread' = [thread EXCEPT ![t] = [@ EXCEPT !.pc = "exit"]]
    /\ UNCHANGED lock
    /\ FixedArgs

\* one turn of "for item in self._table_typed" in the generator, which
\* stays inside "with self._lock" between its yields
IterNext(t) ==
    /\ At(t, {"iter"}, {"iter"})
    /\ thread[t].pos < Len(table)
    /\ LET item == table[thread[t].pos + 1]
       IN thread' = [thread EXCEPT ![t] =
                       [@ EXCEPT !.pos = @ + 1,
                                 !.yielded = IF mp_yields(item)
                                               THEN Append(@, item.key)
                                             ELSE @]]
    /\ TableSame
    /\ UNCHANGED lock
    /\ FixedArgs

\* the end of the with block: the method returns or raises
Exit(t) ==
    /\ \/ At(t, {"exit"}, LockedOps)
       \/ At(t, {"iter"}, {"iter"}) /\ thread[t].pos >= Len(table)
    /\ IF thread[t].exc = ""
         THEN /\ lock' = with_exit(lock, t, "")
              /\ thread' = [thread EXCEPT ![t] = Returned(@)]
       ELSE /\ lock' = Unwind(with_exit(lock, t, thread[t].exc), t, thread[t].ext)
            /\ thread' = [thread EXCEPT ![t] = Raised(@)]
    /\ TableSame
    /\ FixedArgs

\* the caller stops taking keys after a yield.  The generator is suspended
\* inside "with self._lock": if the caller drops it, it is closed and the
\* with block exits; if the caller keeps it, the block is never left.
IterStop(t) ==
    /\ At(t, {"iter"}, {"iter"})
    /\ thread[t].pos >= 1
    /\ mp_yields(table[thread[t].pos])
    /\ \E closed \in BOOLEAN :
          IF closed
            THEN /\ lock' = with_exit(lock, t, "GeneratorExit")
                 /\ thread' = [thread EXCEPT ![t] = Returned(@)]
          ELSE /\ lock' = lock
               /\ thread' = [thread EXCEPT ![t] =
                               [@ EXCEPT !.ip = @ + 1,
                                         !.pc = IF thread[t].ip + 1 > Len(thread[t].prog)
                                                  THEN "done" ELSE "idle"]]
    /\ TableSame
    /\ FixedArgs

\* "with ht._lock:" written by the caller around its own calls
ExtAcquire(t) ==
    /\ At(t, {"idle"}, {"acquire"})
    /\ acquirable(lock, t)
    /\ lock' = rlock_acquire(lock, t)
    /\ thread' = [thread EXCEPT ![t] = Returned([@ EXCEPT !.ext = @ + 1])]
    /\ TableSame
    /\ FixedArgs

ExtRelease(t) ==
    /\ At(t, {"idle"}, {"release"})
    /\ lock' = with_exit(lock, t, "")
    /\ thread' = [thread EXCEPT ![t] = Returned([@ EXCEPT !.ext = @ - 1])]
    /\ TableSame
    /\ FixedArgs

\* the capacity property: reads self._capacity, takes no lock
CapRead(t) ==
    /\ At(t, {"idle"}, {"capacity"})
    /\ thread' = [thread EXCEPT ![t] =
                    Returned([@ EXCEPT !.seen =
                        [value |-> capacity,
                         partial |-> \E u \in DOMAIN thread :
                                        u # t /\ thread[u].pc = "rehash"]])]
    /\ TableSame
    /\ UNCHANGED lock
    /\ FixedArgs

\* threading.Event, set at most once: it is set once a thread has gone
\* past its call of set()
is_set ==
    \E u \in DOMAIN thread :
        \E j \in 1..Len(thread[u].prog) :
            j < thread[u].ip /\ thread[u].prog[j].op = "event_set"

\* clear_done.set()
EventSet(t) ==
    /\ At(t, {"idle"}, {"event_set"})
    /\ thread' = [thread EXCEPT ![t] = Returned(@)]
    /\ TableSame
    /\ UNCHANGED lock
    /\ FixedArgs

\* clear_done.wait(), returning because the event is set
EventWait(t) ==
    /\ At(t, {"idle"}, {"event_wait"})
    /\ is_set
    /\ thread' = [thread EXCEPT ![t] = Returned(@)]
    /\ TableSame
    /\ UNCHANGED lock
    /\ FixedArgs

ThreadStep(t) ==
    \/ Acquire(t)
    \/ ResizeBegin(t)
    \/ Reinsert(t)
    \/ Store(t)
    \/ GetBody(t)
    \/ DelBody(t)
    \/ ContainsBody(t)
    \/ LenBody(t)
    \/ ClearBody(t)
    \/ IterNext(t)
    \/ Exit(t)
    \/ ExtAcquire(t)
    \/ ExtRelease(t)
    \/ CapRead(t)
    \/ EventSet(t)
    \/ EventWait(t)

NextThreads ==
    \/ \E t \in Threads : Acquire(t)
    \/ \E t \in Threads : ResizeBegin(t)
    \/ \E t \in Threads : Reinsert(t)
    \/ \E t \in Threads : Store(t)
    \/ \E t \in Threads : GetBody(t)
    \/ \E t \in Threads : DelBody(t)
    \/ \E t \in Threads : ContainsBody(t)
    \/ \E t \in Threads : LenBody(t)
    \/ \E t \in Threads : ClearBody(t)
    \/ \E t \in Threads : IterNext(t)
    \/ \E t \in Threads : Exit(t)
    \/ \E t \in Threads : ExtAcquire(t)
    \/ \E t \in Threads : ExtRelease(t)
    \/ \E t \in Threads : CapRead(t)
    \/ \E t \in Threads : EventSet(t)
    \/ \E t \in Threads : EventWait(t)

\* ---- the programs of the threads ----
\* thread t inserts PerThread keys of its own
Inserts(t) == [i \in 1..PerThread |-> Op("set", (t - 1) * PerThread + i, t)]

\* PerThread times: with ht._lock: current = ht[1]; ht[1] = current + 1
Increments(t) ==
    [i \in 1..(4 * PerThread) |->
        CASE i % 4 = 1 -> Op("acquire", 0, 0)
          [] i % 4 = 2 -> Op("get", 1, 0)
          [] i % 4 = 3 -> Op("set_inc", 1, 0)
          [] OTHER -> Op("release", 0, 0)]

\* for each of three shared keys: ht[key] = t; value = ht[key]
SameKeys(t) ==
    [i \in 1..6 |->
        IF i % 2 = 1 THEN Op("set", (i + 1) \div 2, t)
        ELSE Op("get", i \div 2, 0)]

Writer(t) == <<Op("set", 1, t), Op("set", 2, t), Op("del", 1, 0), Op("clear", 0, 0)>>

Reader == <<Op("contains", 1, 0), Op("iter", 0, 0), Op("get", 2, 0), Op("len", 0, 0)>>

Mixed(t) == IF t % 2 = 1 THEN Writer(t) ELSE Reader

Grower(t) == <<Op("set", 1, t), Op("set", 1, t)>>

Observer == <<Op("capacity", 0, 0), Op("len", 0, 0)>>

Observed(t) == IF t % 2 = 1 THEN Grower(t) ELSE Observer

\* a worker sets a key of its own, waits for the clear, then sets three
\* more keys of its own; the other thread clears and sets the event
ClearReuse(t) ==
    LET base == 4 * ((t - 1) \div 2)
    IN IF t % 2 = 1
         THEN <<Op("set", base + 1, t), Op("event_wait", 0, 0),
                Op("set", base + 2, t), Op("set", base + 3, t), Op("set", base + 4, t)>>
       ELSE <<Op("clear", 0, 0), Op("event_set", 0, 0)>>

Identity(n) == [k \in 1..n |-> k]

RECURSIVE Prefill(_, _, _)
\* the sets made by the creating thread before the others start
Prefill(t, pre, i) ==
    IF i > Len(pre) THEN t
    ELSE Prefill(mp_setitem(t, pre[i].key, pre[i].value), pre, i + 1)

\* a table constructed with (cap, lf), then filled by the calls pre, and
\* shared by threads that run the programs progs
InitThreadsWith(cap, lf, h, pre, progs) ==
    /\ kind = "MPHashTable"
    /\ status = "table"
    /\ initial_capacity = cap
    /\ load_factor = lf
    /\ hash = h
    /\ LET t0 == Prefill(MPHashTableInit(cap, lf).t, pre, 1)
       IN /\ capacity = t0.capacity
          /\ table = t0.table
          /\ size = t0.size
    /\ expect = [k \in DOMAIN h |-> 0]
    /\ lock = [owner |-> 0, count |-> 0]
    /\ thread = [t \in Threads |-> NewThread(progs[t])]
    /\ twin = NoTable
    /\ times = {}
    /\ cache_storage = <<>>
    /\ history = <<>>

InitInsertsPrime ==
    InitThreadsWith(3, <<1, 2>>, Identity(NumThreads * PerThread), <<>>,
                    [t \in Threads |-> Inserts(t)])

\* capacity 6 and three keys of hash 2: step 3, probe sequence 2, 5, 2, 5, ...
InitInsertsCollide ==
    InitThreadsWith(6, <<9, 10>>,
                    [k \in 1..(NumThreads * PerThread) |-> IF k <= 3 THEN 2 ELSE 3],
                    <<>>,
                    [t \in Threads |-> Inserts(t)])

InitInserts == InitInsertsPrime \/ InitInsertsCollide

\* ht[1] = 0 is made before the threads start
InitIncrements ==
    InitThreadsWith(3, <<1, 2>>, Identity(1), <<Op("set", 1, 0)>>,
                    [t \in Threads |-> Increments(t)])

InitSameKeys ==
    \/ InitThreadsWith(7, <<3, 4>>, Identity(3), <<>>,
                       [t \in Threads |-> SameKeys(t)])
    \/ InitThreadsWith(4, <<9, 10>>, [k \in 1..3 |-> 1], <<>>,
                       [t \in Threads |-> SameKeys(t)])
    \/ InitThreadsWith(6, <<7, 10>>, [k \in 1..3 |-> 2], <<>>,
                       [t \in Threads |-> SameKeys(t)])

InitMixed ==
    InitThreadsWith(3, <<1, 2>>, Identity(2), <<>>, [t \in Threads |-> Mixed(t)])

InitObserved ==
    InitThreadsWith(1, <<1, 8>>, Identity(1), <<>>, [t \in Threads |-> Observed(t)])

InitClearReusePrime ==
    InitThreadsWith(11, <<9, 10>>, Identity(4 * ((NumThreads + 1) \div 2)), <<>>,
                    [t \in Threads |-> ClearReuse(t)])

\* capacity 6 and keys of hash 2: step 3, probe sequence 2, 5, 2, 5, ...
InitClearReuseCollide ==
    InitThreadsWith(6, <<9, 10>>,
                    [k \in 1..(4 * ((NumThreads + 1) \div 2)) |-> 2], <<>>,
                    [t \in Threads |-> ClearReuse(t)])

InitThreads ==
    \/ InitInserts
    \/ InitIncrements
    \/ InitSameKeys
    \/ InitMixed
    \/ InitObserved
    \/ InitClearReusePrime
    \/ InitClearReuseCollide

SpecThreads == InitThreads /\ [][NextThreads]_vars

\* the workloads that make every kind of call, under a scheduler that lets
\* every thread that can take a step eventually take one
InitScheduled ==
    \/ InitInsertsPrime
    \/ InitIncrements
    \/ InitMixed
    \/ InitObserved
    \/ InitClearReusePrime

FairSpecThreads ==
    /\ InitScheduled
    /\ [][NextThreads]_vars
    /\ \A t \in Threads : WF_vars(ThreadStep(t))

\* ---- an iteration that its caller may leave unfinished ----
\* One thread in two iterates over a table of three keys and may stop
\* after any key; the other sets a fourth key, gets one and tests one.
NextPartial ==
    \/ \E t \in Threads : Acquire(t)
    \/ \E t \in Threads : IterNext(t)
    \/ \E t \in Threads : IterStop(t)
    \/ \E t \in Threads : Store(t)
    \/ \E t \in Threads : GetBody(t)
    \/ \E t \in Threads : ContainsBody(t)
    \/ \E t \in Threads : Exit(t)

SpecPartial ==
    /\ \E cap \in {7, 11} :
          InitThreadsWith(cap, <<9, 10>>, Identity(4),
                          <<Op("set", 1, 1), Op("set", 2, 1), Op("set", 3, 1)>>,
                          [t \in Threads |->
                              IF t % 2 = 1 THEN <<Op("iter", 0, 0)>>
                              ELSE <<Op("set", 4, t), Op("get", 1, 0),
                                     Op("contains", 2, 0)>>])
    /\ [][NextPartial]_vars
    /\ \A t \in Threads :
          WF_vars(Acquire(t) \/ IterNext(t) \/ Store(t) \/ GetBody(t)
                     \/ ContainsBody(t) \/ Exit(t))

\* ---- helpers of the claims ----
Ok(r, v) == r.exc = "" /\ r.ret = v

Trigger(t) == (t.size + 1) * load_factor[2] >= load_factor[1] * t.capacity

\* the probe sequence of key holds neither the key nor a free slot
ProbeExhausted(t, key) ==
    /\ t.capacity # 1
    /\ LET s == Scan(t, key, probe_sequence(t, key, hash1(t, key)), 1, -1)
       IN ~s.done /\ s.index = -1

AllTombstones(t) == \A i \in 1..Len(t.table) : t.table[i].tag = "DELETED"

\* ---- C1 ----
\* C1: a key that was set and not deleted or cleared since is returned by
\* get with the last value set for it.
RoundTrip ==
    IsHT => \A k \in KeySet : expect[k] # 0 => Ok(getitem(Self, k), expect[k])

\* ---- C2 ----
\* C2: at most one Occupied slot holds a given key, len never exceeds the
\* number of keys set and not deleted, and setting a present key leaves len
\* unchanged.
KeyUniqueness ==
    IsHT =>
        /\ \A k \in KeySet : Cardinality(SlotsOf(Self, k)) <= 1
        /\ len(Self) <= Cardinality(Live)
        /\ \A k \in Live, v \in Values : len(setitem(Self, k, v)) = len(Self)

Deletion ==
    IsHT =>
        \A k \in Live :
            LET r == delitem(Self, k)
            IN /\ r.exc = ""
               /\ ~contains(r.t, k).ret
               /\ getitem(r.t, k).exc = "KeyError"
               /\ len(r.t) = len(Self) - 1

\* ---- C5 ----
\* C5: get and delete of an absent key raise KeyError and leave len, the
\* contents and the capacity as they were.
AbsentKeyError ==
    IsHT =>
        \A k \in KeySet \ Live :
            /\ getitem(Self, k).exc = "KeyError"
            /\ getitem(Self, k).t = Self
            /\ delitem(Self, k).exc = "KeyError"
            /\ delitem(Self, k).t = Self

\* ---- C6 ----
\* C6: when a set grows the table, every other key set and not deleted
\* before is retrievable afterwards with its last value, and len is the
\* number of such keys, plus one if the set inserted a new key.
ResizePreservesContents ==
    IsHT =>
        \A k \in KeySet, v \in Values :
            LET t == setitem(Self, k, v)
            IN t.capacity > capacity =>
                 /\ \A j \in Live \ {k} : Ok(getitem(t, j), expect[j])
                 /\ len(t) = Cardinality(Live \cup {k})

\* ---- C7 ----
\* C7: a set made at or above the load-factor threshold leaves the capacity
\* at exactly 2 * capacity + 1; a set made below it, without probe
\* exhaustion, leaves the capacity unchanged.
GrowthPolicy ==
    IsHT =>
        \A k \in KeySet, v \in Values :
            LET t == setitem(Self, k, v)
            IN /\ Trigger(Self) => t.capacity = 2 * capacity + 1
               /\ (~Trigger(Self) /\ ~ProbeExhausted(Self, k))
                     => t.capacity = capacity

\* ---- C8 ----
\* C8: after set(a), delete(a), set(b) with a's slot on b's probe sequence,
\* and after a set into a table whose slots are all Tombstones, the key set
\* is retrievable and len is the number of live keys (1 in the second case).
TombstoneReuse ==
    IsHT =>
        /\ \A a, b \in KeySet, v, w \in Values :
              LET t1 == setitem(Self, a, v)
                  slot == find_index(t1, a)
                  t2 == delitem(t1, a)
                  t3 == setitem(t2.t, b, w)
              IN (slot.found /\ t2.exc = "" /\ slot.index \in ProbeSet(t2.t, b))
                    => /\ Ok(getitem(t3, b), w)
                       /\ len(t3) = Cardinality((Live \ {a}) \cup {b})
        /\ AllTombstones(Self) =>
              \A b \in KeySet, w \in Values :
                  LET t3 == setitem(Self, b, w)
                  IN Ok(getitem(t3, b), w) /\ len(t3) = 1

\* ---- C9 ----
\* C9: on a constructed table contains, set, len and clear raise nothing,
\* and get and delete raise nothing but KeyError.
Totality ==
    /\ IsHT =>
          \A k \in KeySet :
              /\ contains(Self, k).exc = ""
              /\ getitem(Self, k).exc \in {"", "KeyError"}
              /\ delitem(Self, k).exc \in {"", "KeyError"}
    /\ IsMP =>
          \A k \in KeySet :
              /\ mp_contains(Self, k).exc = ""
              /\ mp_getitem(Self, k).exc \in {"", "KeyError"}
              /\ mp_delitem(Self, k).exc \in {"", "KeyError"}

\* ---- C10 ----
\* C10: the constructor raises ValueError and yields no table when
\* initial_capacity <= 0 or load_factor is outside (0, 1); otherwise it
\* yields a table of the given capacity with len 0 and all slots Empty.
ValidArguments ==
    /\ initial_capacity >= 1
    /\ 0 < load_factor[1]
    /\ load_factor[1] < load_factor[2]

ConstructorValidation ==
    [][status = "args" =>
          IF ValidArguments
            THEN /\ status' = "table"
                 /\ size' = 0
                 /\ capacity' = initial_capacity
                 /\ Len(table') = initial_capacity
                 /\ \A i \in 1..initial_capacity : table'[i].tag = "None"
          ELSE /\ status' = "ValueError"
               /\ table' = <<>>]_vars

\* the constructor has rejected a valid capacity for its load factor
WitnessConstructorValidation ==
    /\ status = "ValueError"
    /\ initial_capacity >= 1
    /\ table = <<>>

\* ---- C11 ----
\* C11: after clear on a table in any reachable state len is 0, every slot is
\* Empty, the capacity is as before, no key is contained (a key can have
\* been set only on a table of capacity above 1), and the table is the one
\* a constructor call with that capacity yields, so that set and get behave
\* on it as on a fresh table.
ClearResets ==
    /\ IsHT =>
          LET c == clear(Self)
          IN /\ len(c) = 0
             /\ Len(c.table) = capacity
             /\ \A i \in 1..capacity : c.table[i].tag = "None"
             /\ c.capacity = capacity
             /\ (Live # {} \/ Occupied(Self) # {}) => capacity > 1
             /\ capacity > 1 => \A k \in KeySet : Ok(contains(c, k), FALSE)
             /\ c = HashTableInit(capacity, load_factor).t
             /\ \A k \in KeySet, v \in Values :
                   Ok(getitem(setitem(c, k, v), k), v)
    /\ IsMP =>
          LET c == mp_clear(Self)
          IN /\ mp_len(c) = 0
             /\ \A i \in 1..capacity : c.table[i].tag = "None"
             /\ c.capacity = capacity
             /\ capacity > 1 => \A k \in KeySet : Ok(mp_contains(c, k), FALSE)
             /\ c = MPHashTableInit(capacity, load_factor).t

\* a grown table holds an entry and a Tombstone: clear has both to remove
WitnessClearResets ==
    /\ IsHT
    /\ capacity > initial_capacity
    /\ Cardinality(Occupied(Self)) >= 1
    /\ \E i \in 1..capacity : table[i].tag = "DELETED"
    /\ clear(Self) # Self
    /\ \E k \in KeySet : contains(Self, k).ret

\* ---- C12 ----
\* C12: iterating a HashTable yields, in slot-array order, exactly the keys
\* set and not deleted, each once; their number is len; get of every yielded
\* key returns the value stored with it, so values() and items() raise
\* nothing.
IterationAgreesWithLookup ==
    IsHT =>
        LET ks == iter(Self)
            occ == SelectSeq(table, IsItem)
        IN /\ ks = [i \in 1..Len(occ) |-> occ[i].key]
           /\ {ks[i] : i \in 1..Len(ks)} = Live
           /\ Len(ks) = Cardinality(Live)
           /\ Len(ks) = len(Self)
           /\ \A i \in 1..Len(ks) : Ok(getitem(Self, ks[i]), occ[i].value)
           /\ values(Self).exc = ""
           /\ items(Self).exc = ""

\* ---- helpers of the claims on threads ----
Finished(t) == thread[t].pc \in {"done", "raised"}

AllDone == IsMP /\ thread # <<>> /\ \A t \in DOMAIN thread : Finished(t)

\* the thread is inside "with self._lock" of a public method
Inside(t) == thread[t].pc \in {"body", "rehash", "iter", "exit"}

\* every call of every program, as <<thread, index>>
Calls == UNION {{<<t, i>> : i \in DOMAIN thread[t].prog} : t \in DOMAIN thread}

CallOf(c) == thread[c[1]].prog[c[2]]

\* ---- C13 ----
\* C13: when the threads only insert, every key by one call, then once all
\* threads have finished len is the number of calls and every key is
\* contained and got with the value its writer set.
DisjointInserts ==
    (/\ AllDone
     /\ \A c \in Calls : CallOf(c).op = "set"
     /\ \A c, d \in Calls : CallOf(c).key = CallOf(d).key => c = d)
        => /\ mp_len(Self) = Cardinality(Calls)
           /\ \A c \in Calls :
                 /\ Ok(mp_contains(Self, CallOf(c).key), TRUE)
                 /\ Ok(mp_getitem(Self, CallOf(c).key), CallOf(c).value)

\* ---- C14 ----
\* the call thread t is about to leave has done to the table, and returns,
\* what the method does when run alone on the table as it was on entry
RunAlone(t) ==
    LET s == thread[t].snap
        c == Cur(t)
        r == thread[t]
    IN CASE c.op \in SetOps -> Self = mp_setitem(s, c.key, Arg(t))
         [] c.op = "get" ->
               /\ Self = s
               /\ r.exc = mp_getitem(s, c.key).exc
               /\ r.exc = "" => r.ret = mp_getitem(s, c.key).ret
         [] c.op = "del" ->
               /\ Self = mp_delitem(s, c.key).t
               /\ r.exc = mp_delitem(s, c.key).exc
         [] c.op = "contains" ->
               /\ Self = s
               /\ r.exc = mp_contains(s, c.key).exc
               /\ r.ret = IF mp_contains(s, c.key).ret THEN 1 ELSE 0
         [] c.op = "len" -> Self = s /\ r.ret = mp_len(s)
         [] c.op = "clear" -> Self = mp_clear(s)
         [] OTHER -> Self = s

\* C14: at most one thread is inside the steps of a public operation of the
\* table, that thread owns the lock, and every operation leaves the table
\* and returns as if it had run alone on the table it found.
MutualExclusion ==
    /\ \A t, u \in DOMAIN thread : (Inside(t) /\ Inside(u)) => t = u
    /\ \A t \in DOMAIN thread : Inside(t) => lock.owner = t
    /\ \A t \in DOMAIN thread : thread[t].pc = "exit" => RunAlone(t)

\* a thread is in the middle of a rehash while another has a call to make
WitnessMutualExclusion ==
    \E t, u \in DOMAIN thread :
        /\ t # u
        /\ thread[t].pc = "rehash"
        /\ thread[t].pos > 1
        /\ size >= 1
        /\ thread[u].pc = "idle"
        /\ Cur(u).op \in LockedOps

\* ---- C15 ----
Incrementing == \A t \in DOMAIN thread : thread[t].prog = Increments(t)

\* C15: a thread that holds the lock is never kept from entering a method of
\* the table, and when every thread has made its PerThread locked
\* get-then-set increments of a key that started at 0, the key holds
\* NumThreads * PerThread.
AtomicIncrement ==
    /\ \A t \in DOMAIN thread :
          (thread[t].pc = "idle" /\ Cur(t).op \in LockedOps /\ lock.owner = t)
              => acquirable(lock, t)
    /\ (AllDone /\ Incrementing)
          => Ok(mp_getitem(Self, 1), NumThreads * PerThread)

\* all increments are done and none was lost
WitnessAtomicIncrement ==
    /\ AllDone
    /\ Incrementing
    /\ \A t \in DOMAIN thread : thread[t].pc = "done"
    /\ mp_getitem(Self, 1).ret = NumThreads * PerThread
    /\ lock.owner = 0

\* ---- C16 ----
\* C16: outside a method a thread holds the lock as often as it has entered
\* "with ht._lock" itself, inside a method once more, and not at all after
\* a method raised; the lock has an owner only while that thread has calls
\* left, so another thread can take it afterwards.
LockReleased ==
    /\ \A t \in DOMAIN thread :
          /\ thread[t].pc \in {"idle", "done"} => holds(t) = thread[t].ext
          /\ Inside(t) => holds(t) = thread[t].ext + 1
          /\ thread[t].pc = "raised" => holds(t) = 0
    /\ lock.owner # 0 => (lock.count >= 1 /\ ~Finished(lock.owner))
    /\ lock.owner = 0 => lock.count = 0

\* a get has raised KeyError and another thread is inside a method after it
WitnessLockReleased ==
    \E t, u \in DOMAIN thread :
        /\ t # u
        /\ thread[t].pc = "raised"
        /\ thread[t].exc = "KeyError"
        /\ thread[u].pc = "body"
        /\ lock.owner = u

\* ---- C17 ----
Blocked(t) ==
    /\ thread[t].pc = "idle"
    /\ \/ Cur(t).op \in LockedOps \cup {"acquire"} /\ ~acquirable(lock, t)
       \/ Cur(t).op = "event_wait" /\ ~is_set

NotAllBlocked ==
    (\E t \in DOMAIN thread : ~Finished(t))
        => \E t \in DOMAIN thread : ~Finished(t) /\ ~Blocked(t)

\* C17: in no reachable state are all unfinished threads waiting for the
\* lock, and under fair scheduling every thread finishes its calls.
DeadlockFreedom == []NotAllBlocked /\ <>AllDone

\* the writer and the reader of the mixed workload have both returned from
\* all their calls
WitnessDeadlockFreedom ==
    /\ AllDone
    /\ \A t \in DOMAIN thread : thread[t].prog = Mixed(t) /\ thread[t].pc = "done"

\* ---- C18 ----
\* C18: while a thread iterates, the table is the one it found when it
\* entered the iteration, and the keys yielded so far are the keys of the
\* tuples in the slots of that table passed so far, in slot order.
IterationSnapshot ==
    \A t \in DOMAIN thread :
        thread[t].pc = "iter" =>
            /\ Self = thread[t].snap
            /\ LET occ == SelectSeq(SubSeq(thread[t].snap.table, 1, thread[t].pos), IsItem)
               IN thread[t].yielded = [i \in 1..Len(occ) |-> occ[i].key]

\* an iteration has passed a Tombstone and yielded a key while another
\* thread waits to change the table
WitnessIterationSnapshot ==
    \E t, u \in DOMAIN thread :
        /\ t # u
        /\ thread[t].pc = "iter"
        /\ thread[t].pos = Len(table)
        /\ Len(thread[t].yielded) >= 1
        /\ \E i \in 1..Len(table) : table[i].tag = "DELETED"
        /\ thread[u].pc = "idle"
        /\ Cur(u).op \in {"set", "del", "clear"}

\* ---- C19 ----
\* C19: no read of the capacity is made from the state in the middle of
\* another thread's rehash.
NoPartialResize ==
    \A t \in DOMAIN thread : ~thread[t].seen.partial

\* ---- C20 ----
Sharing == \A t \in DOMAIN thread : thread[t].prog = SameKeys(t)

\* C20: when every thread sets the same three keys and reads each back, no
\* read raises, every read returns a value some thread wrote, and once all
\* threads have finished len is 3.
SameKeyWriters ==
    (IsMP /\ thread # <<>> /\ Sharing) =>
        /\ \A t \in DOMAIN thread : thread[t].pc # "raised"
        /\ \A t \in DOMAIN thread :
              (thread[t].pc = "exit" /\ Cur(t).op = "get" /\ thread[t].exc = "")
                  => thread[t].ret \in Threads
        /\ AllDone => mp_len(Self) = 3

\* ---- C21 ----
\* C21: when clear is about to return the table is empty, and once the
\* threads that set their keys after the clear had returned have finished,
\* len is the number of those keys and each is contained and got with its
\* value, whatever was set before the clear.
ClearAndReuse ==
    LET \* the sets a thread makes after it has waited for the clear
        AfterClear ==
            {c \in Calls :
                /\ CallOf(c).op = "set"
                /\ \E j \in 1..(c[2] - 1) : thread[c[1]].prog[j].op = "event_wait"}
    IN (IsMP /\ thread # <<>> /\ \A t \in DOMAIN thread : thread[t].prog = ClearReuse(t)) =>
        /\ \A t \in DOMAIN thread :
              (thread[t].pc = "exit" /\ Cur(t).op = "clear")
                  => size = 0 /\ Occupied(Self) = {}
        /\ AllDone =>
              /\ mp_len(Self) = Cardinality(AfterClear)
              /\ \A c \in AfterClear :
                    /\ Ok(mp_contains(Self, CallOf(c).key), TRUE)
                    /\ Ok(mp_getitem(Self, CallOf(c).key), CallOf(c).value)

\* ---- C22 ----
\* C22: whenever no call on the shared MPHashTable is in progress, size is
\* the number of slots that hold a pair, size is at most the capacity, and
\* no key is held by two slots.
MPSizeInvariant ==
    (IsMP /\ thread # <<>> /\ \A t \in DOMAIN thread : ~Inside(t)) =>
        /\ size = Cardinality(Occupied(Self))
        /\ size <= capacity
        /\ \A k \in KeySet : Cardinality(SlotsOf(Self, k)) <= 1

\* ---- C23 ----
\* C23: after the same calls by one thread, every call returns or raises
\* the same on the HashTable and on the MPHashTable, and the two hold the
\* same key-to-value mapping.
SameContract ==
    LET Mapping(t) == {<<t.table[i].key, t.table[i].value>> : i \in Occupied(t)}
        SameOutcome(a, b) == a.exc = b.exc /\ (a.exc = "" => a.ret = b.ret)
    IN IsPair =>
        /\ Mapping(Self) = Mapping(twin)
        /\ len(Self) = mp_len(twin)
        /\ \A k \in KeySet :
              /\ SameOutcome(getitem(Self, k), mp_getitem(twin, k))
              /\ SameOutcome(contains(Self, k), mp_contains(twin, k))
              /\ delitem(Self, k).exc = mp_delitem(twin, k).exc

\* ---- C24 ----
\* C24: with cache(times=n), n >= 0, the cache holds at most n entries
\* after every call of the wrapper, and a call that stores a result into a
\* full cache evicts the entry that was stored earliest.
CacheBounded ==
    [][LET StoredKeys(storage) == {storage[i].key : i \in 1..Len(storage)}
           \* the call at which the entry of key now in the cache was stored
           StoredAt(key) ==
               LET S == {i \in 1..Len(history) :
                           history[i].key = key /\ history[i].computed}
               IN CHOOSE i \in S : \A j \in S : j <= i
           Earliest ==
               CHOOSE k \in StoredKeys(cache_storage) :
                   \A l \in StoredKeys(cache_storage) : StoredAt(k) <= StoredAt(l)
           n == CHOOSE x \in times : TRUE
       IN (IsCache /\ times # {}) =>
            /\ Len(cache_storage') <= n
            /\ Cardinality(StoredKeys(cache_storage')) = Len(cache_storage')
            /\ (/\ Len(history') = Len(history) + 1
                /\ history'[Len(history')].computed
                /\ Len(cache_storage) = n
                /\ n > 0)
                   => StoredKeys(cache_storage') =
                         (StoredKeys(cache_storage) \ {Earliest})
                             \cup {history'[Len(history')].key}]_vars

\* a full cache of two entries has just evicted its earliest entry, which
\* was also the entry used last
WitnessCacheBounded ==
    /\ IsCache
    /\ times = {2}
    /\ Len(history) >= 2
    /\ Len(cache_storage) = 2
    /\ history[Len(history)].evicted # 0
    /\ history[Len(history) - 1].key = history[Len(history)].evicted
    /\ ~history[Len(history) - 1].computed

\* ---- C25 ----
\* C25: with cache(times=n), n >= 1, after a call that computed a result
\* the next n calls with the same arguments return it without calling the
\* function, unless the entry was evicted, and the call after these n
\* calls the function again; with times=None every call calls the function.
CacheExpiration ==
    LET \* the calls with the key of call i made after call i and before call j
        Between(i, j) == {m \in (i + 1)..(j - 1) : history[m].key = history[i].key}
    IN IsCache =>
        /\ times = {} => \A i \in 1..Len(history) : history[i].computed
        /\ \A i \in 1..Len(history) : history[i].result = func(history[i].key)
        /\ (times # {} /\ \A n \in times : n >= 1) =>
              LET n == CHOOSE x \in times : TRUE
              IN \A i, j \in 1..Len(history) :
                    (/\ i < j
                     /\ history[i].computed
                     /\ history[j].key = history[i].key
                     /\ \A m \in (i + 1)..(j - 1) :
                           history[m].evicted # history[i].key)
                        => /\ Cardinality(Between(i, j)) < n
                                => ~history[j].computed
                           /\ Cardinality(Between(i, j)) = n
                                => history[j].computed

\* a result was computed, returned from the cache times more times, and
\* computed again
WitnessCacheExpiration ==
    /\ IsCache
    /\ times = {2}
    /\ \E i \in 1..Len(history) :
          /\ i + 3 <= Len(history)
          /\ \A m \in i..(i + 3) : history[m].key = history[i].key
          /\ history[i].computed
          /\ ~history[i + 1].computed
          /\ ~history[i + 2].computed
          /\ history[i + 3].computed

\* ---- C26 ----
\* C26: on a table of capacity 2 or more, _hash1 is in [0, capacity),
\* _hash2 is in [1, capacity), and the probe sequence from _hash1 has
\* capacity indices in [0, capacity), the i-th (from 0) being
\* (_hash1 + i * _hash2) mod capacity.
ProbeRanges ==
    (IsHT /\ capacity >= 2) =>
        \A key \in KeySet :
            LET h1 == hash1(Self, key)
                h2 == hash2(Self, key)
                seq == probe_sequence(Self, key, h1)
            IN /\ h1 \in 0..(capacity - 1)
               /\ h2 \in 1..(capacity - 1)
               /\ Len(seq) = capacity
               /\ seq[1] = h1
               /\ \A i \in 1..capacity :
                     /\ seq[i] \in 0..(capacity - 1)
                     /\ seq[i] = (h1 + (i - 1) * h2) % capacity

\* a key of negative hash on a table of composite capacity
WitnessProbeRanges ==
    /\ IsHT
    /\ capacity = 10
    /\ \E key \in KeySet : hash[key] = -3 /\ hash2(Self, key) = 7

\* ---- C27 ----
\* C27: on every table of capacity 2 or more the step of every key is not
\* 0 and is relatively prime to the capacity, and the indices of its probe
\* sequence are pairwise distinct and are all the slots.
ProbeCoverage ==
    ((IsHT \/ IsMP) /\ capacity >= 2) =>
        \A key \in KeySet :
            LET h2 == hash2(Self, key)
                seq == ProbeFrom(hash1(Self, key), h2, capacity, capacity)
                Divisors(n) == {d \in 1..n : n % d = 0}
            IN /\ h2 # 0
               /\ Divisors(capacity) \cap Divisors(h2) = {1}
               /\ \A i, j \in 1..capacity : seq[i] = seq[j] => i = j
               /\ {seq[i] : i \in 1..capacity} = 0..(capacity - 1)

\* ---- C28 ----
\* C28: every pair a table holds is found by _find_index, at the slot that
\* holds it.
OnProbeSequence ==
    IsPair =>
        /\ capacity > 1 =>
              \A i \in Occupied(Self) :
                  LET r == find_index(Self, table[i].key)
                  IN r.exc = "" /\ r.found /\ r.index = i - 1
        /\ twin.capacity > 1 =>
              \A i \in Occupied(twin) :
                  LET r == mp_find_index(twin, twin.table[i].key)
                  IN r.exc = "" /\ r.found /\ r.index = i - 1

\* ---- C29 ----
\* C29: _find_index returns the first slot holding the key when it comes
\* before every Empty slot of the probe sequence; otherwise, at the first
\* Empty slot, the first Tombstone passed before it, or else that Empty
\* slot, with found False.
LocateFollowsPolicy ==
    LET \* what the scan of key's probe sequence on t has to return: r is
        \* the <<index, found>> returned
        LocatePolicy(t, key, r) ==
            LET seq == ProbeFrom(hash1(t, key), hash2(t, key), t.capacity, t.capacity)
                E == {i \in 1..Len(seq) : t.table[seq[i] + 1].tag = "None"}
                D == {i \in 1..Len(seq) : t.table[seq[i] + 1].tag = "DELETED"}
                K == {i \in 1..Len(seq) : /\ IsItem(t.table[seq[i] + 1])
                                          /\ t.table[seq[i] + 1].key = key}
                e == IF E = {} THEN Len(seq) + 1 ELSE Min(E)
                Seen == {i \in D : i < e}
            IN IF \E i \in K : i < e
                 THEN r = <<seq[Min(K)], TRUE>>
               ELSE IF E # {}
                 THEN r = <<IF Seen # {} THEN seq[Min(Seen)] ELSE seq[e], FALSE>>
               ELSE TRUE
    IN IsPair =>
        \A key \in KeySet :
            /\ capacity > 1 =>
                  LET r == find_index(Self, key)
                  IN LocatePolicy(Self, key, <<r.index, r.found>>)
            /\ twin.capacity > 1 =>
                  LET r == mp_find_index(twin, key)
                  IN LocatePolicy(twin, key, <<r.index, r.found>>)

\* ---- C30 ----
\* C30: on a HashTable of capacity 2 or more, _find_index returns for every
\* key, in get, delete and contains and after _resize_if_needed in set; it
\* resizes the table only when the probe sequence is exhausted and no slot
\* is Empty, then once, to 2 * capacity + 1, and it returns the slot of the
\* key or a free slot.
ExhaustionAbsorbed ==
    LET \* what one _find_index may do to the table t
        Absorbed(t, key) ==
            LET r == find_index(t, key)
            IN /\ r.exc = ""
               /\ IF ProbeExhausted(t, key) /\ NoneSlots(t) = {}
                    THEN r.t.capacity = 2 * t.capacity + 1
                  ELSE r.t = t
               /\ r.found => /\ IsItem(r.t.table[r.index + 1])
                              /\ r.t.table[r.index + 1].key = key
               /\ ~r.found => r.t.table[r.index + 1].tag \in {"None", "DELETED"}
    IN (IsHT /\ capacity > 1) =>
        \A key \in KeySet :
            /\ Absorbed(Self, key)
            /\ Absorbed(resize_if_needed(Self), key)

\* every slot holds a pair or a Tombstone and the probe sequence of a key
\* the table does not hold is full of other keys
WitnessExhaustionAbsorbed ==
    /\ IsHT
    /\ capacity = 4
    /\ \E key \in KeySet :
          /\ ProbeExhausted(Self, key)
          /\ NoneSlots(Self) = {}
          /\ find_index(Self, key).t.capacity = 9
          /\ ~find_index(Self, key).found

\* ---- C31 ----
\* C31: whenever no call on the shared MPHashTable is in progress, a set of
\* any key keeps every pair of every other key, and adds one to size only
\* when one more slot holds a pair afterwards.
InsertNeverClobbers ==
    LET Pairs(t) == {<<t.table[i].key, t.table[i].value>> : i \in Occupied(t)}
    IN (IsMP /\ thread # <<>> /\ \A t \in DOMAIN thread : ~Inside(t)) =>
        \A k \in KeySet, v \in Values :
            LET u == mp_setitem(Self, k, v)
            IN /\ \A p \in Pairs(Self) : p[1] # k => p \in Pairs(u)
               /\ u.size > size =>
                     /\ u.size = size + 1
                     /\ Cardinality(Occupied(u)) = Cardinality(Occupied(Self)) + 1

\* ---- C32 ----
\* C32: on a HashTable of capacity 2 or more, a set of key k changes the
\* outcome of no lookup of another key j: j is contained afterwards exactly
\* if it was contained before, and get(j) returns the same value.
SetLeavesOthers ==
    (IsHT /\ capacity > 1) =>
        \A k \in KeySet, v \in Values :
            LET u == setitem(Self, k, v)
            IN \A j \in KeySet \ {k} :
                  /\ contains(u, j).ret = contains(Self, j).ret
                  /\ getitem(u, j).exc = getitem(Self, j).exc
                  /\ getitem(u, j).ret = getitem(Self, j).ret

\* ---- C33 ----
\* C33: on a HashTable, a delete of a contained key k turns one slot, which
\* held k, into a Tombstone, changes no other slot and not the capacity, and
\* every other contained key j is contained afterwards and get(j) returns
\* the value it returned before.
DeleteLeavesOthers ==
    (IsHT /\ capacity > 1) =>
        \A k \in KeySet :
            contains(Self, k).ret =>
                LET d == delitem(Self, k)
                    changed == {i \in 1..capacity : d.t.table[i] # table[i]}
                IN /\ d.exc = ""
                   /\ d.t.capacity = capacity
                   /\ Len(d.t.table) = capacity
                   /\ Cardinality(changed) = 1
                   /\ \A i \in changed : /\ IsItem(table[i])
                                         /\ table[i].key = k
                                         /\ d.t.table[i].tag = "DELETED"
                   /\ \A j \in KeySet \ {k} :
                         contains(Self, j).ret =>
                             /\ contains(d.t, j).ret
                             /\ getitem(d.t, j).exc = ""
                             /\ getitem(d.t, j).ret = getitem(Self, j).ret

\* ---- C34 ----
\* C34: the table that _resize(2 * capacity + 1) leaves, on a HashTable and
\* on an MPHashTable, has the requested capacity, holds no Tombstone, holds
\* in its slots exactly the pairs the slots held before, as many of them,
\* and has their number as size.
ResizeCompacts ==
    LET Pairs(t) == {<<t.table[i].key, t.table[i].value>> : i \in Occupied(t)}
        Compacts(t, u, new_capacity) ==
            /\ u.capacity = new_capacity
            /\ Len(u.table) = new_capacity
            /\ \A i \in 1..Len(u.table) : u.table[i].tag # "DELETED"
            /\ Pairs(u) = Pairs(t)
            /\ Cardinality(Occupied(u)) = Cardinality(Occupied(t))
            /\ u.size = Cardinality(Occupied(u))
    IN /\ IsHT => Compacts(Self, resize(Self, 2 * capacity + 1), 2 * capacity + 1)
       /\ IsMP => Compacts(Self, mp_resize(Self, 2 * capacity + 1), 2 * capacity + 1)

\* ---- C35 ----
\* C35: in every state of a HashTable or MPHashTable of capacity 2 or more
\* the slot array is capacity long; no set, get, contains, delete or clear
\* leaves a smaller capacity or a slot array of another length than the
\* capacity, and delete and clear leave the capacity as it was.
CapacityInStep ==
    LET InStep(t) == Len(t.table) = t.capacity /\ t.capacity >= capacity
    IN /\ (IsHT /\ capacity > 1) =>
            /\ Len(table) = capacity
            /\ InStep(clear(Self)) /\ clear(Self).capacity = capacity
            /\ \A k \in KeySet :
                  /\ InStep(getitem(Self, k).t)
                  /\ InStep(contains(Self, k).t)
                  /\ InStep(delitem(Self, k).t)
                  /\ delitem(Self, k).t.capacity = capacity
                  /\ \A v \in Values : InStep(setitem(Self, k, v))
       /\ (IsMP /\ capacity > 1) =>
            /\ Len(table) = capacity
            /\ InStep(mp_clear(Self)) /\ mp_clear(Self).capacity = capacity
            /\ \A k \in KeySet :
                  /\ InStep(mp_getitem(Self, k).t)
                  /\ InStep(mp_contains(Self, k).t)
                  /\ InStep(mp_delitem(Self, k).t)
                  /\ mp_delitem(Self, k).t.capacity = capacity
                  /\ \A v \in Values : InStep(mp_setitem(Self, k, v))

\* ---- C36 ----
\* C36: on a HashTable of capacity 2 or more, get and contains of any key,
\* present or absent, leave the slot array, size and capacity as they were
\* (len and iteration write nothing in the code).
ReadsLeaveTable ==
    (IsHT /\ capacity > 1) =>
        \A k \in KeySet :
            /\ getitem(Self, k).t = Self
            /\ contains(Self, k).t = Self

\* ---- C37 ----
\* C37: after every operation on a HashTable or an MPHashTable, whatever the
\* initial capacity and the load factor, size is less than capacity and at
\* least one slot holds no pair.
FreeSlotRemains ==
    (IsHT \/ IsMP) =>
        /\ size < capacity
        /\ \E i \in 1..capacity : ~IsItem(table[i])

\* a table that has grown and is at its threshold: the next set grows it
WitnessFreeSlotRemains ==
    /\ IsHT \/ IsMP
    /\ capacity > initial_capacity
    /\ size >= 2
    /\ Trigger(Self)
    /\ size < capacity

\* ---- C38 ----
\* C38: on a HashTable, whatever the initial capacity and the load factor,
\* the table a set leaves has size / capacity below the load factor.
LoadBelowThreshold ==
    IsHT =>
        \A k \in KeySet, v \in Values :
            LET u == setitem(Self, k, v)
            IN u.size * load_factor[2] < load_factor[1] * u.capacity

\* ---- C39 ----
\* C39: a thread that has taken keys from an iterator over the table and is
\* no longer inside the iteration does not hold the lock, and the set, get
\* and contains calls of the other threads all complete.
PartialIterationReleases ==
    /\ [](\A t \in DOMAIN thread :
            (thread[t].pc \in {"idle", "done"} /\ thread[t].yielded # <<>>)
                => holds(t) = 0)
    /\ <>AllDone

====
